---- MODULE Spec2Model ----
(***************************************************************************)
(* Exchange connectivity layer of EdenDongSan/Dong.                        *)
(*                                                                         *)
(*   BybitWebsocketClient  (api/websocket_client.py): the streaming        *)
(*       session, modelled as cooperative asyncio tasks.  A task runs      *)
(*       from one await to the next without interruption; `running` is     *)
(*       the task that holds the event loop.                               *)
(*   BitgetAPI             (third/data_api.py): stale-order sweep and      *)
(*       position read model.                                              *)
(*   BybitClientV2 / BybitFuturesTrader: REST request signing.             *)
(***************************************************************************)
EXTENDS Integers, Sequences, FiniteSets, TLC

(***************************************************************************)
(* Bounds of the model.  The client's tunable attributes are scaled down   *)
(* (the values __init__ assigns are given on each line); time is counted   *)
(* in ticks, TicksPerSecond of them to a second.                           *)
(***************************************************************************)
NumCallers == 2             \* tasks of the application that can call the client
MaxCalls == 3               \* calls each of them makes while the clock stands
MaxSessionCalls == 1        \* calls each of them makes while the clock runs
MaxSockets == 3             \* connections the transport accepts while the clock stands
MaxSessionSockets == 2      \* connections it accepts while the clock runs
MaxTime == 4                \* ticks the clock runs
MaxDrops == 1               \* connections the peer drops
MaxFails == 1               \* connection attempts that fail
MaxBurst == 3               \* _send_message calls of a burst
MaxBurstTime == 2           \* ticks a burst lasts
MaxOrders == 3              \* pending orders the exchange returns
MaxPositions == 2           \* position records the exchange returns
MaxSignCalls == 2           \* signatures made in one run
MaxClock == 2               \* milliseconds the clock of a signing run advances
TicksPerSecond == 2
max_channels_per_conn == 2  \* websocket_client.py:33 assigns 50
message_rate_limit == 2     \* websocket_client.py:34 assigns 10
ping_interval == 1          \* seconds; websocket_client.py:31 assigns 20
connection_timeout == 1     \* seconds; websocket_client.py:32 assigns 30
RECONNECT_DELAY == 1        \* seconds; websocket_client.py:136 sleeps 5

Sec(n) == n * TicksPerSecond

\* A run of the client is either a series of calls made in one instant, or one
\* call followed by the session running for MaxTime ticks; a burst is a series
\* of _send_message calls on a connected client.  In these one task of the
\* application calls the client; in the scenario "subscribers" every task of
\* the application makes one subscribe call, in one instant.
Scenarios == {"calls", "session"}
CallBudget(sc) == IF sc = "calls" THEN MaxCalls ELSE MaxSessionCalls
TimeBudget(sc) ==
    IF sc \in {"calls", "subscribers"} THEN 0
    ELSE IF sc = "burst" THEN MaxBurstTime ELSE MaxTime
SocketBudget(sc) == IF sc = "calls" THEN MaxSockets ELSE MaxSessionSockets

VARIABLES
    \* BybitWebsocketClient's fields
    callbacks, subscribed_channels, ws, is_connected,
    last_ping_time, last_pong_time, message_count, message_time,
    \* the event loop: the clock, the tasks, and the task holding the loop
    now, task, running, spawned,
    \* the environment: the kind of run, connections dropped, attempts failed,
    \* sockets on which a ping is unanswered
    scenario, drops, fails, pinged,
    \* the transport: each socket's state, and when the frames of the last
    \* second were handed to a socket
    sock, sendTimes,
    \* history: calls made, their outcome, the registry the calls imply
    calls, outcome, ref, closeCalled,
    \* the REST clients: the call in progress, its inputs and its results
    rest

vars == <<callbacks, subscribed_channels, ws, is_connected,
          last_ping_time, last_pong_time, message_count, message_time,
          now, task, running, spawned, scenario, drops, fails, pinged, sock, sendTimes,
          calls, outcome, ref, closeCalled, rest>>

clientVars == <<callbacks, subscribed_channels, ws, is_connected,
                last_ping_time, last_pong_time, message_count, message_time>>
histVars == <<calls, outcome, ref, closeCalled>>
envVars == <<scenario, drops, fails, pinged, rest>>
wsVars == <<clientVars, now, task, running, spawned, sock, sendTimes, histVars,
           scenario, drops, fails, pinged>>

----------------------------------------------------------------------------
(* Channels, callbacks, tasks *)

None == "None"
NoRest == [op |-> "none"]
NoTask == <<"none", 0>>

Channel(instId) == [instType |-> "USDT-FUTURES", channel |-> "ticker", instId |-> instId]
Channels == {Channel("BTCUSDT"), Channel("ETHUSDT")}
Callbacks == {"cbA", "cbB"}

\* f"{channel['instType']}.{channel['channel']}.{channel['instId']}"
ChannelKey(ch) == ch.instType \o "." \o ch.channel \o "." \o ch.instId
Keys == {ChannelKey(ch) : ch \in Channels}
KeysOf(chs) == {ChannelKey(chs[i]) : i \in 1..Len(chs)}

\* the channel lists a caller passes: one or two channels, repeats included
ChannelLists ==
    {<<c>> : c \in Channels} \cup {<<Channel("BTCUSDT"), d>> : d \in Channels}

Callers == {<<"user", i>> : i \in 1..NumCallers}
\* the tasks of the application that call the client in a run of kind sc
CallersOf(sc) == IF sc = "subscribers" THEN Callers ELSE {<<"user", 1>>}
Rx == <<"rx", 1>>
Ka(i) == <<"ka", i>>
Mon(i) == <<"mon", i>>
Sockets == 1..MaxSockets
Tasks == Callers \cup {Rx} \cup {Ka(i) : i \in Sockets} \cup {Mon(i) : i \in Sockets}

NoLocals == [pc |-> "none", stack |-> <<>>, chans |-> <<>>, cb |-> None,
             msg |-> None, sk |-> 0, wake |-> 0, priv |-> FALSE]

Pc(t) == task[t].pc

\* the task t holds the event loop: its next step continues its running code
Runs(t) == running = t
\* a task made by create_task that has not run yet; the loop runs it, in
\* the order of creation, as soon as the running task awaits
New(t) == Pc(t) \in {"ka_new", "mon_new"}
Idle == running = NoTask
Free == Idle /\ \A t \in Tasks : ~New(t)

Set(t, fields) == [task EXCEPT ![t] = fields]

OpenSockets == {s \in Sockets : sock[s] = "open"}
FreshSockets == {s \in 1..SocketBudget(scenario) : sock[s] = "fresh"}

----------------------------------------------------------------------------
(* State after BybitWebsocketClient.__init__ (websocket_client.py:18-36) *)

\* the client as __init__ leaves it (lines 18-36), no task started
InitClient ==
    /\ callbacks = [k \in {} |-> None]
    /\ subscribed_channels = {}
    /\ ws = 0
    /\ is_connected = FALSE
    /\ last_ping_time = 0
    /\ last_pong_time = 0
    /\ message_count = 0
    /\ message_time = 0
    /\ now = 0
    /\ task = [t \in Tasks |-> IF t \in Callers THEN [NoLocals EXCEPT !.pc = "idle"] ELSE NoLocals]
    /\ running = NoTask
    /\ spawned = 0
    /\ drops = 0
    /\ fails = 0
    /\ pinged = {}
    /\ sock = [s \in Sockets |-> "fresh"]
    /\ sendTimes = <<>>
    /\ calls = [t \in Callers |-> 0]
    /\ outcome = [t \in Callers |-> "none"]
    /\ ref = {}
    /\ closeCalled = FALSE

Init ==
    /\ InitClient
    /\ scenario \in Scenarios
    /\ rest = NoRest

----------------------------------------------------------------------------
(* Calls, returns and exceptions *)

\* an exception leaving the code of a task whose pending returns are st:
\* the handler that catches it, and whether _connect's handler (lines 71-74)
\* cleared is_connected on the way
RECURSIVE Unwind(_)
Unwind(st) ==
    IF st = <<>> THEN [pc |-> "idle", stack |-> <<>>, clear |-> FALSE]
    ELSE LET h == Head(st)
             r == Tail(st)
         IN  CASE h = "rc_resub"   -> [pc |-> "rc_except", stack |-> r, clear |-> FALSE]
               [] h = "ka_sent"    -> [pc |-> "ka_reconnect", stack |-> r, clear |-> FALSE]
               [] OTHER            -> Unwind(r)

\* task t raises; inConnect: the exception starts inside _connect's try block
Raise(t, inConnect) ==
    LET u == Unwind(task[t].stack)
        user == u.pc = "idle"
    IN  /\ task' = Set(t, IF user THEN [NoLocals EXCEPT !.pc = "idle"]
                          ELSE [task[t] EXCEPT !.pc = u.pc, !.stack = u.stack,
                                               !.msg = None, !.sk = 0])
        /\ is_connected' = IF u.clear \/ inConnect THEN FALSE ELSE is_connected
        /\ running' = IF user THEN NoTask ELSE t
        /\ outcome' = IF user THEN [outcome EXCEPT ![t] = "error"] ELSE outcome

\* task t returns from the function it is in
Return(t) ==
    task' = Set(t, [task[t] EXCEPT !.pc = Head(task[t].stack),
                                   !.stack = Tail(task[t].stack),
                                   !.msg = None, !.sk = 0])

\* a call of the client by the application returns normally
Done(t) ==
    /\ task' = Set(t, [NoLocals EXCEPT !.pc = "idle"])
    /\ outcome' = [outcome EXCEPT ![t] = "ok"]
    /\ running' = NoTask

----------------------------------------------------------------------------
(* _send_message (websocket_client.py:139-160) *)

\* the hand-over times of `times` that are less than a second before `at`
Recent(times, at) == SelectSeq(times, LAMBDA x : x > at - Sec(1))

\* lines 143-151: the window check, up to the sleep or the send
SendStart(t) ==
    /\ Runs(t) /\ Pc(t) = "send_start"
    /\ LET reset == now - message_time >= Sec(1)
           cnt == IF reset THEN 0 ELSE message_count
       IN  /\ message_time' = IF reset THEN now ELSE message_time
           /\ message_count' = cnt
           /\ IF cnt >= message_rate_limit
              THEN /\ task' = Set(t, [task[t] EXCEPT !.pc = "send_sleep", !.wake = now + Sec(1)])
                   /\ running' = NoTask
              ELSE /\ task' = Set(t, [task[t] EXCEPT !.pc = "send_write"])
                   /\ running' = t
    /\ UNCHANGED <<callbacks, subscribed_channels, ws, is_connected, last_ping_time,
                   last_pong_time, now, spawned, sock, sendTimes, histVars, envVars>>

\* lines 155-158: self.ws.send; with no socket or a socket that is not open it raises
SendWrite(t) ==
    /\ Runs(t) /\ Pc(t) = "send_write"
    /\ IF ws = 0 \/ sock[ws] # "open"
       THEN /\ Raise(t, FALSE)
            /\ UNCHANGED <<sendTimes, pinged>>
       ELSE /\ sendTimes' = Append(Recent(sendTimes, now), now)
            /\ pinged' = IF task[t].msg = "ping" THEN pinged \cup {ws} ELSE pinged
            /\ task' = Set(t, [task[t] EXCEPT !.pc = "send_io"])
            /\ running' = NoTask
            /\ UNCHANGED <<is_connected, outcome>>
    /\ UNCHANGED <<callbacks, subscribed_channels, ws, last_ping_time, last_pong_time,
                   message_count, message_time, now, spawned, sock, calls, ref, closeCalled, rest, scenario, drops, fails>>

\* line 160: the send has returned
SendDone(t) ==
    /\ Free /\ Pc(t) = "send_io"
    /\ message_count' = message_count + 1
    /\ Return(t)
    /\ running' = t
    /\ UNCHANGED <<callbacks, subscribed_channels, ws, is_connected, last_ping_time,
                   last_pong_time, message_time, now, spawned, sock, sendTimes,
                   histVars, envVars>>

----------------------------------------------------------------------------
(* _connect and _authenticate (websocket_client.py:51-98) *)

\* lines 57-60: the caller awaits websockets.connect(url)
CallConnect(t, private, ret) ==
    Set(t, [task[t] EXCEPT !.pc = "connect_io", !.priv = private,
                           !.stack = <<ret>> \o task[t].stack])

\* lines 60-65: the connection is open
ConnectOk(t) ==
    /\ Free /\ Pc(t) = "connect_io"
    /\ FreshSockets # {}
    /\ LET s == CHOOSE x \in FreshSockets : \A y \in FreshSockets : x <= y
       IN  /\ ws' = s
           /\ sock' = [sock EXCEPT ![s] = "open"]
    /\ is_connected' = TRUE
    /\ task' = Set(t, [task[t] EXCEPT !.pc = IF task[t].priv THEN "auth_start" ELSE "connect_spawn"])
    /\ running' = t
    /\ UNCHANGED <<callbacks, subscribed_channels, last_ping_time, last_pong_time,
                   message_count, message_time, now, spawned, sendTimes, histVars, envVars>>

\* lines 71-74: websockets.connect raised
ConnectFail(t) ==
    /\ Free /\ Pc(t) = "connect_io"
    /\ fails < MaxFails
    /\ fails' = fails + 1
    /\ Raise(t, TRUE)
    /\ UNCHANGED <<callbacks, subscribed_channels, ws, last_ping_time, last_pong_time,
                   message_count, message_time, now, spawned, sock, sendTimes,
                   calls, ref, closeCalled, rest, scenario, drops, pinged>>

\* settings.py:19-25: the keys of BYBIT_API_CONFIG, which get_config('bybit')
\* hands to the client as api_config (websocket_client.py:22)
ApiConfigKeys == {"testnet", "base_url_testnet", "base_url_mainnet", "api_key", "secret_key"}

\* settings.py:58: the keys _validate_config requires to hold a value
ValidatedKeys == {"api_key", "secret_key"}

\* the keys of api_config that _generate_signature (line 44) and the login
\* frame (lines 84-85) read
LoginKeys == {"secret_key", "api_key", "passphrase"}

\* lines 78-89: the signature is made and the login frame built; reading a
\* key that api_config does not hold raises KeyError, inside _connect's try
\* block (api_config holds no 'passphrase', so the send of line 91 and the
\* recv of lines 92-98 are not reached)
AuthStart(t) ==
    /\ Runs(t) /\ Pc(t) = "auth_start"
    /\ LoginKeys \ ApiConfigKeys # {}
    /\ Raise(t, TRUE)
    /\ UNCHANGED <<callbacks, subscribed_channels, ws, last_ping_time, last_pong_time,
                   message_count, message_time, now, spawned, sock, sendTimes,
                   calls, ref, closeCalled, envVars>>

\* lines 68-69: create_task(_keep_alive()), create_task(_monitor_connection()),
\* and _connect returns
ConnectSpawn(t) ==
    /\ Runs(t) /\ Pc(t) = "connect_spawn"
    /\ spawned' = spawned + 1
    /\ task' = [task EXCEPT
                  ![t] = [@ EXCEPT !.pc = Head(task[t].stack), !.stack = Tail(task[t].stack),
                                   !.priv = FALSE],
                  ![Ka(spawned + 1)] = [NoLocals EXCEPT !.pc = "ka_new"],
                  ![Mon(spawned + 1)] = [NoLocals EXCEPT !.pc = "mon_new"]]
    /\ UNCHANGED <<clientVars, now, running, sock, sendTimes, histVars, envVars>>

----------------------------------------------------------------------------
(* subscribe, unsubscribe, close (websocket_client.py:162-203, 248-252) *)

\* the check without the channels of the request
CapacityExceededIgnoringRequest(registered, chs) ==
    Cardinality(registered) > max_channels_per_conn

\* line 169: the capacity check
CapacityExceeded(registered, chs) ==
    Cardinality(registered) + Len(chs) > max_channels_per_conn

\* the application calls subscribe(channels, callback)
CallSubscribe(t, chs, cb) ==
    /\ Free /\ t \in Callers /\ Pc(t) = "idle" /\ calls[t] < CallBudget(scenario) /\ now = 0
    /\ calls' = [calls EXCEPT ![t] = @ + 1]
    /\ outcome' = [outcome EXCEPT ![t] = "pending"]
    /\ task' = Set(t, [task[t] EXCEPT !.pc = "sub_check", !.chans = chs, !.cb = cb,
                                      !.msg = "subscribe"])
    /\ running' = t
    /\ UNCHANGED <<clientVars, now, spawned, sock, sendTimes, ref, closeCalled, envVars>>

\* lines 169-173: the capacity error, or the connect of a client that is not connected
SubCheck(t) ==
    /\ Runs(t) /\ Pc(t) = "sub_check"
    /\ IF CapacityExceeded(subscribed_channels, task[t].chans)
       THEN /\ task' = Set(t, [NoLocals EXCEPT !.pc = "idle"])
            /\ outcome' = [outcome EXCEPT ![t] = "CapacityError"]
            /\ running' = NoTask
       ELSE IF ~is_connected
       THEN /\ task' = CallConnect(t, FALSE, "sub_send")
            /\ running' = NoTask
            /\ UNCHANGED outcome
       ELSE /\ task' = Set(t, [task[t] EXCEPT !.pc = "sub_send"])
            /\ UNCHANGED <<running, outcome>>
    /\ UNCHANGED <<clientVars, now, spawned, sock, sendTimes, calls, ref, closeCalled, envVars>>

\* lines 175-180: the subscribe request goes to _send_message
SubSend(t) ==
    /\ Runs(t) /\ Pc(t) = "sub_send"
    /\ task' = Set(t, [task[t] EXCEPT !.pc = "send_start", !.msg = "subscribe",
                                      !.stack = <<"sub_record">> \o task[t].stack])
    /\ UNCHANGED <<clientVars, now, running, spawned, sock, sendTimes, histVars, envVars>>

\* only the first channel of the request is bound
BindFirst(cbs, chs, cb) ==
    [k \in DOMAIN cbs \cup {ChannelKey(chs[1])} |-> IF k = ChannelKey(chs[1]) THEN cb ELSE cbs[k]]

\* lines 182-185: each channel key is bound to the callback and recorded
Bind(cbs, chs, cb) ==
    [k \in DOMAIN cbs \cup KeysOf(chs) |-> IF k \in KeysOf(chs) THEN cb ELSE cbs[k]]

SubRecord(t) ==
    /\ Runs(t) /\ Pc(t) = "sub_record"
    /\ callbacks' = Bind(callbacks, task[t].chans, task[t].cb)
    /\ subscribed_channels' = subscribed_channels \cup KeysOf(task[t].chans)
    /\ ref' = ref \cup KeysOf(task[t].chans)
    /\ Done(t)
    /\ UNCHANGED <<ws, is_connected, last_ping_time, last_pong_time, message_count,
                   message_time, now, spawned, sock, sendTimes, calls, closeCalled, envVars>>

\* lines 193-198: the application calls unsubscribe(channels)
CallUnsubscribe(t, chs) ==
    /\ Free /\ t \in Callers /\ Pc(t) = "idle" /\ calls[t] < CallBudget(scenario) /\ now = 0
    /\ calls' = [calls EXCEPT ![t] = @ + 1]
    /\ outcome' = [outcome EXCEPT ![t] = "pending"]
    /\ ref' = ref \ KeysOf(chs)
    /\ task' = Set(t, [task[t] EXCEPT !.pc = "send_start", !.chans = chs,
                                      !.msg = "unsubscribe", !.stack = <<"unsub_record">>])
    /\ running' = t
    /\ UNCHANGED <<clientVars, now, spawned, sock, sendTimes, closeCalled, envVars>>

\* lines 200-203: callbacks.pop(key, None), subscribed_channels.discard(key)
Unbind(cbs, chs) == [k \in DOMAIN cbs \ KeysOf(chs) |-> cbs[k]]

UnsubRecord(t) ==
    /\ Runs(t) /\ Pc(t) = "unsub_record"
    /\ callbacks' = Unbind(callbacks, task[t].chans)
    /\ subscribed_channels' = subscribed_channels \ KeysOf(task[t].chans)
    /\ Done(t)
    /\ UNCHANGED <<ws, is_connected, last_ping_time, last_pong_time, message_count,
                   message_time, now, spawned, sock, sendTimes, calls, ref,
                   closeCalled, envVars>>

\* lines 250-252: the application calls close()
CallClose(t) ==
    /\ Free /\ t \in Callers /\ Pc(t) = "idle" /\ calls[t] < CallBudget(scenario) /\ now = 0
    /\ calls' = [calls EXCEPT ![t] = @ + 1]
    /\ closeCalled' = TRUE
    /\ is_connected' = FALSE
    /\ IF ws # 0
       THEN /\ sock' = [sock EXCEPT ![ws] = "closed"]
            /\ task' = Set(t, [task[t] EXCEPT !.pc = "close_io"])
            /\ outcome' = [outcome EXCEPT ![t] = "pending"]
       ELSE /\ outcome' = [outcome EXCEPT ![t] = "ok"]
            /\ UNCHANGED <<sock, task>>
    /\ UNCHANGED <<callbacks, subscribed_channels, ws, last_ping_time, last_pong_time,
                   message_count, message_time, now, running, spawned, sendTimes,
                   ref, envVars>>

\* line 252: ws.close() has returned
CloseDone(t) ==
    /\ Free /\ Pc(t) = "close_io"
    /\ Done(t)
    /\ UNCHANGED <<clientVars, now, spawned, sock, sendTimes, calls, ref,
                   closeCalled, envVars>>

----------------------------------------------------------------------------
(* _reconnect (websocket_client.py:120-137) *)

\* lines 122-125: the flag is cleared and the socket, if there is one, closed
ReconnectStart(t) ==
    /\ Runs(t) /\ Pc(t) = "rc_start"
    /\ is_connected' = FALSE
    /\ IF ws # 0
       THEN /\ sock' = [sock EXCEPT ![ws] = "closed"]
            /\ task' = Set(t, [task[t] EXCEPT !.pc = "rc_close_io"])
            /\ running' = NoTask
       ELSE /\ task' = CallConnect(t, subscribed_channels # {}, "rc_resub")
            /\ running' = NoTask
            /\ UNCHANGED sock
    /\ UNCHANGED <<callbacks, subscribed_channels, ws, last_ping_time, last_pong_time,
                   message_count, message_time, now, spawned, sendTimes, histVars, envVars>>

\* line 127: ws.close() has returned; _connect(len(self.subscribed_channels) > 0)
ReconnectConnect(t) ==
    /\ Free /\ Pc(t) = "rc_close_io"
    /\ task' = CallConnect(t, subscribed_channels # {}, "rc_resub")
    /\ UNCHANGED <<clientVars, now, running, spawned, sock, sendTimes, histVars, envVars>>

\* lines 130-131: with channels registered, self.subscribe(list(...)) is called
\* without its callback argument: the call raises TypeError before subscribe's
\* body runs, and the handler of line 133 catches it.  With none registered
\* _reconnect returns: to the receive loop, or to the asyncio.sleep(1) that
\* follows it in _keep_alive (line 110) and _monitor_connection (line 118)
ReconnectResubscribe(t) ==
    /\ Runs(t) /\ Pc(t) = "rc_resub"
    /\ LET back == Head(task[t].stack)
       IN  IF subscribed_channels # {}
           THEN /\ task' = Set(t, [task[t] EXCEPT !.pc = "rc_except"])
                /\ UNCHANGED running
           ELSE IF back \in {"ka_wait", "mon_wait"}
           THEN /\ task' = Set(t, [NoLocals EXCEPT !.pc = back, !.wake = now + Sec(1)])
                /\ running' = NoTask
           ELSE /\ Return(t)
                /\ UNCHANGED running
    /\ UNCHANGED <<clientVars, now, spawned, sock, sendTimes, histVars, envVars>>

\* lines 133-136: the handler sleeps
ReconnectExcept(t) ==
    /\ Runs(t) /\ Pc(t) = "rc_except"
    /\ task' = Set(t, [task[t] EXCEPT !.pc = "rc_sleep", !.wake = now + Sec(RECONNECT_DELAY),
                                      !.priv = FALSE])
    /\ running' = NoTask
    /\ UNCHANGED <<clientVars, now, spawned, sock, sendTimes, histVars, envVars>>

----------------------------------------------------------------------------
(* _keep_alive and _monitor_connection (websocket_client.py:100-118) *)

\* asyncio.sleep(secs), after which the task goes on at pc
Sleep(t, pc, secs) == Set(t, [task[t] EXCEPT !.pc = pc, !.wake = now + Sec(secs)])

\* lines 102-105, 110: the loop test, then the ping or the sleep
KeepAlive(t) ==
    /\ \/ Idle /\ Pc(t) = "ka_new"
       \/ Free /\ Pc(t) = "ka_wait" /\ now >= task[t].wake
    /\ IF ~is_connected
       THEN /\ task' = Set(t, [NoLocals EXCEPT !.pc = "done"])
            /\ UNCHANGED running
       ELSE IF now - last_ping_time >= Sec(ping_interval)
       THEN /\ task' = Set(t, [task[t] EXCEPT !.pc = "send_start", !.msg = "ping",
                                              !.stack = <<"ka_sent">>, !.wake = 0])
            /\ running' = t
       ELSE /\ task' = Sleep(t, "ka_wait", 1)
            /\ UNCHANGED running
    /\ UNCHANGED <<clientVars, now, spawned, sock, sendTimes, histVars, envVars>>

\* lines 106, 110: the ping is sent
KeepAliveSent(t) ==
    /\ Runs(t) /\ Pc(t) = "ka_sent"
    /\ last_ping_time' = now
    /\ task' = Sleep(t, "ka_wait", 1)
    /\ running' = NoTask
    /\ UNCHANGED <<callbacks, subscribed_channels, ws, is_connected, last_pong_time,
                   message_count, message_time, now, spawned, sock, sendTimes,
                   histVars, envVars>>

\* lines 107-109: the send raised
KeepAliveReconnect(t) ==
    /\ Runs(t) /\ Pc(t) = "ka_reconnect"
    /\ task' = Set(t, [task[t] EXCEPT !.pc = "rc_start", !.stack = <<"ka_wait">>])
    /\ UNCHANGED <<clientVars, now, running, spawned, sock, sendTimes, histVars, envVars>>

\* line 115
PongTimeout == now - last_pong_time > Sec(connection_timeout)

\* lines 114-118: the loop test, then the reconnect or the sleep
Monitor(t) ==
    /\ \/ Idle /\ Pc(t) = "mon_new" /\ \A u \in Tasks : Pc(u) # "ka_new"
       \/ Free /\ Pc(t) = "mon_wait" /\ now >= task[t].wake
    /\ IF ~is_connected
       THEN /\ task' = Set(t, [NoLocals EXCEPT !.pc = "done"])
            /\ UNCHANGED running
       ELSE IF PongTimeout
       THEN /\ task' = Set(t, [task[t] EXCEPT !.pc = "rc_start", !.stack = <<"mon_wait">>,
                                              !.wake = 0])
            /\ running' = t
       ELSE /\ task' = Sleep(t, "mon_wait", 1)
            /\ UNCHANGED running
    /\ UNCHANGED <<clientVars, now, spawned, sock, sendTimes, histVars, envVars>>

----------------------------------------------------------------------------
(* start and _handle_messages (websocket_client.py:205-246) *)

\* the application starts start() as a task
StartReceive ==
    /\ Free /\ Pc(Rx) = "none" /\ now = 0
    /\ task' = Set(Rx, [NoLocals EXCEPT !.pc = "rx_loop"])
    /\ running' = Rx
    /\ UNCHANGED <<clientVars, now, spawned, sock, sendTimes, histVars, envVars>>

\* lines 207-209, 233-237, 241-243: the loop test and self.ws.recv().
\* With the flag cleared _handle_messages returns at once and start() calls
\* it again, without an await: the task spins and keeps the event loop.
ReceiveLoop(t) ==
    /\ Runs(t) /\ Pc(t) = "rx_loop"
    /\ IF ~is_connected
       THEN /\ task' = Set(t, [NoLocals EXCEPT !.pc = "rx_spin"])
            /\ UNCHANGED running
       ELSE IF sock[ws] # "open"
       THEN /\ task' = Set(t, [task[t] EXCEPT !.pc = "rc_start", !.stack = <<"rx_loop">>,
                                              !.msg = None, !.chans = <<>>])
            /\ UNCHANGED running
       ELSE /\ task' = Set(t, [task[t] EXCEPT !.pc = "rx_recv_io", !.sk = ws,
                                              !.msg = None, !.chans = <<>>])
            /\ running' = NoTask
    /\ UNCHANGED <<clientVars, now, spawned, sock, sendTimes, histVars, envVars>>

\* lines 212-214: 'pong'
ReceivePong(t) ==
    /\ Free /\ Pc(t) = "rx_recv_io" /\ sock[task[t].sk] = "open"
    /\ task[t].sk \in pinged
    /\ pinged' = pinged \ {task[t].sk}
    /\ last_pong_time' = now
    /\ task' = Set(t, [task[t] EXCEPT !.pc = "rx_loop", !.sk = 0, !.msg = "pong"])
    /\ running' = t
    /\ UNCHANGED <<callbacks, subscribed_channels, ws, is_connected, last_ping_time,
                   message_count, message_time, now, spawned, sock, sendTimes,
                   histVars, rest, scenario, drops, fails>>

\* lines 216-221: an error envelope is logged
ReceiveError(t) ==
    /\ Free /\ Pc(t) = "rx_recv_io" /\ sock[task[t].sk] = "open"
    /\ task' = Set(t, [task[t] EXCEPT !.pc = "rx_loop", !.sk = 0, !.msg = "error"])
    /\ running' = t
    /\ UNCHANGED <<clientVars, now, spawned, sock, sendTimes, histVars, envVars>>

\* the callback of any registered channel, whatever the instrument
CallbackForAnyInstrument(cbs, ch) ==
    IF DOMAIN cbs # {} THEN cbs[CHOOSE k \in DOMAIN cbs : TRUE] ELSE None

\* lines 226-230: the callback registered for the channel of the envelope
CallbackFor(cbs, ch) ==
    IF ChannelKey(ch) \in DOMAIN cbs THEN cbs[ChannelKey(ch)] ELSE None

\* the callback is started as a task of its own and the loop goes on
DispatchDetached(tk, ch, cb) ==
    [tk EXCEPT !.pc = "rx_loop", !.msg = "data", !.chans = <<ch>>, !.cb = cb]

\* lines 230-231: the receive task with locals tk awaits the callback cb, if
\* there is one, for the data envelope of channel ch
Dispatch(tk, ch, cb) ==
    [tk EXCEPT !.pc = IF cb = None THEN "rx_loop" ELSE "rx_callback",
               !.msg = "data", !.chans = <<ch>>, !.cb = cb]

\* lines 216-231: a data envelope for channel ch
ReceiveMessage(t, ch) ==
    /\ Free /\ Pc(t) = "rx_recv_io" /\ sock[task[t].sk] = "open"
    /\ task' = Set(t, Dispatch(task[t], ch, CallbackFor(callbacks, ch)))
    /\ running' = t
    /\ UNCHANGED <<clientVars, now, spawned, sock, sendTimes, histVars, envVars>>

\* line 231: the callback, a coroutine of the application, awaits something
CallbackAwait(t) ==
    /\ Runs(t) /\ Pc(t) = "rx_callback"
    /\ task' = Set(t, [task[t] EXCEPT !.pc = "rx_callback_io"])
    /\ running' = NoTask
    /\ UNCHANGED <<clientVars, now, spawned, sock, sendTimes, histVars, envVars>>

\* lines 231, 236-237: the callback returns, or raises and the error is
\* logged; the loop goes on
CallbackEnd(t) ==
    /\ \/ Runs(t) /\ Pc(t) = "rx_callback"
       \/ Free /\ Pc(t) = "rx_callback_io"
    /\ task' = Set(t, [task[t] EXCEPT !.pc = "rx_loop", !.sk = 0, !.cb = None])
    /\ running' = t
    /\ UNCHANGED <<clientVars, now, spawned, sock, sendTimes, histVars, envVars>>

\* lines 233-235: recv() raises ConnectionClosed
ReceiveClosed(t) ==
    /\ Free /\ Pc(t) = "rx_recv_io" /\ sock[task[t].sk] # "open"
    /\ task' = Set(t, [task[t] EXCEPT !.pc = "rc_start", !.stack = <<"rx_loop">>, !.sk = 0])
    /\ running' = t
    /\ UNCHANGED <<clientVars, now, spawned, sock, sendTimes, histVars, envVars>>

----------------------------------------------------------------------------
(* The environment: the peer drops a connection; time passes *)

\* the peer, or the network, ends the connection of socket s
ServerClose(s) ==
    /\ sock[s] = "open"
    /\ drops < MaxDrops
    /\ drops' = drops + 1
    /\ sock' = [sock EXCEPT ![s] = "dropped"]
    /\ UNCHANGED <<clientVars, now, task, running, spawned, sendTimes, histVars, rest, scenario, fails, pinged>>

\* a task whose timer has run out: asyncio.sleep (lines 110, 118, 136, 151)
Woken(t) == Pc(t) \in {"send_sleep", "rc_sleep", "ka_wait", "mon_wait"} /\ now >= task[t].wake

\* the sleeps of _send_message and _reconnect are over: _send_message restarts
\* its window (lines 150-151) and goes on to the write, _reconnect calls
\* itself (line 137)
Wake(t) ==
    /\ Free /\ Woken(t) /\ Pc(t) \in {"send_sleep", "rc_sleep"}
    /\ task' = Set(t, [task[t] EXCEPT
                          !.pc = IF @ = "send_sleep" THEN "send_write" ELSE "rc_start",
                          !.wake = 0])
    /\ running' = t
    /\ IF Pc(t) = "send_sleep"
       THEN message_count' = 0 /\ message_time' = now
       ELSE UNCHANGED <<message_count, message_time>>
    /\ UNCHANGED <<callbacks, subscribed_channels, ws, is_connected, last_ping_time,
                   last_pong_time, now, spawned, sock, sendTimes, histVars, envVars>>

\* an awaited transfer that the network can complete at once: a write or a
\* close, a connection while the server accepts one, the end of a connection
\* that is no longer open
Ready(t) ==
    \/ Pc(t) \in {"send_io", "close_io", "rc_close_io"}
    \/ Pc(t) = "connect_io" /\ FreshSockets # {}
    \/ Pc(t) = "rx_recv_io" /\ sock[task[t].sk] # "open"

\* the loop is idle, no timer is due and no transfer can complete: network
\* round trips are short against a tick
Tick ==
    /\ Free /\ now < TimeBudget(scenario)
    /\ \A t \in Tasks : ~Woken(t) /\ ~Ready(t)
    /\ now' = now + 1
    /\ sendTimes' = Recent(sendTimes, now + 1)
    /\ UNCHANGED <<clientVars, task, running, spawned, sock, histVars, envVars>>

----------------------------------------------------------------------------
Next ==
    \/ \E t \in CallersOf(scenario), chs \in ChannelLists, cb \in Callbacks : CallSubscribe(t, chs, cb)
    \/ \E t \in CallersOf(scenario), chs \in ChannelLists : CallUnsubscribe(t, chs)
    \/ \E t \in CallersOf(scenario) : CallClose(t)
    \/ \E t \in Tasks : SubCheck(t)
    \/ \E t \in Tasks : SubSend(t)
    \/ \E t \in Tasks : SubRecord(t)
    \/ \E t \in Tasks : UnsubRecord(t)
    \/ \E t \in Tasks : CloseDone(t)
    \/ \E t \in Tasks : SendStart(t)
    \/ \E t \in Tasks : SendWrite(t)
    \/ \E t \in Tasks : SendDone(t)
    \/ \E t \in Tasks : ConnectOk(t)
    \/ \E t \in Tasks : ConnectFail(t)
    \/ \E t \in Tasks : AuthStart(t)
    \/ \E t \in Tasks : ConnectSpawn(t)
    \/ \E t \in Tasks : ReconnectStart(t)
    \/ \E t \in Tasks : ReconnectConnect(t)
    \/ \E t \in Tasks : ReconnectResubscribe(t)
    \/ \E t \in Tasks : ReconnectExcept(t)
    \/ \E t \in Tasks : KeepAlive(t)
    \/ \E t \in Tasks : KeepAliveSent(t)
    \/ \E t \in Tasks : KeepAliveReconnect(t)
    \/ \E t \in Tasks : Monitor(t)
    \/ StartReceive
    \/ \E t \in Tasks : ReceiveLoop(t)
    \/ \E t \in Tasks : ReceivePong(t)
    \/ \E t \in Tasks : ReceiveError(t)
    \/ \E t \in Tasks, ch \in Channels : ReceiveMessage(t, ch)
    \/ \E t \in Tasks : CallbackAwait(t)
    \/ \E t \in Tasks : CallbackEnd(t)
    \/ \E t \in Tasks : ReceiveClosed(t)
    \/ \E s \in Sockets : ServerClose(s)
    \/ \E t \in Tasks : Wake(t)
    \/ Tick

Spec == Init /\ [][Next]_vars

----------------------------------------------------------------------------
(* Concurrent subscribe calls (websocket_client.py:162-185): every task of  *)
(* the application calls subscribe once on the client as __init__ leaves    *)
(* it; a call that awaits its connection or its send lets the other run.    *)

\* the channel lists the tasks pass: one channel of three, or two channels
SubscriberLists ==
    {<<Channel(i)>> : i \in {"BTCUSDT", "ETHUSDT", "SOLUSDT"}}
        \cup {<<Channel("BTCUSDT"), Channel("ETHUSDT")>>}

InitSubscribers ==
    /\ InitClient
    /\ scenario = "subscribers"
    /\ rest = NoRest

NextSubscribers ==
    \/ \E t \in CallersOf(scenario), chs \in SubscriberLists, cb \in Callbacks :
           CallSubscribe(t, chs, cb)
    \/ \E t \in Tasks : SubCheck(t)
    \/ \E t \in Tasks : SubSend(t)
    \/ \E t \in Tasks : SubRecord(t)
    \/ \E t \in Tasks : SendStart(t)
    \/ \E t \in Tasks : SendWrite(t)
    \/ \E t \in Tasks : SendDone(t)
    \/ \E t \in Tasks : ConnectOk(t)
    \/ \E t \in Tasks : ConnectFail(t)
    \/ \E t \in Tasks : ConnectSpawn(t)
    \/ \E t \in Tasks : KeepAlive(t)
    \/ \E t \in Tasks : Monitor(t)

SpecSubscribers == InitSubscribers /\ [][NextSubscribers]_vars

----------------------------------------------------------------------------
(* A burst of _send_message calls (websocket_client.py:139-160) on the      *)
(* client as subscribe([BTCUSDT], cbA) leaves it: connected, one frame sent, *)
(* the keepalive and monitor tasks in their first sleep.                    *)

InitRate ==
    /\ callbacks = [k \in {ChannelKey(Channel("BTCUSDT"))} |-> "cbA"]
    /\ subscribed_channels = {ChannelKey(Channel("BTCUSDT"))}
    /\ ws = 1
    /\ is_connected = TRUE
    /\ last_ping_time = 0
    /\ last_pong_time = 0
    /\ message_count = 1
    /\ message_time = 0
    /\ now = 0
    /\ task = [t \in Tasks |->
                 IF t \in Callers THEN [NoLocals EXCEPT !.pc = "idle"]
                 ELSE IF t = Ka(1) THEN [NoLocals EXCEPT !.pc = "ka_wait", !.wake = Sec(1)]
                 ELSE IF t = Mon(1) THEN [NoLocals EXCEPT !.pc = "mon_wait", !.wake = Sec(1)]
                 ELSE NoLocals]
    /\ running = NoTask
    /\ spawned = 1
    /\ scenario = "burst"
    /\ drops = 0
    /\ fails = 0
    /\ pinged = {}
    /\ sock = [s \in Sockets |-> IF s = 1 THEN "open" ELSE "fresh"]
    /\ sendTimes = <<0>>
    /\ calls = [t \in Callers |-> 1]
    /\ outcome = [t \in Callers |-> "ok"]
    /\ ref = {ChannelKey(Channel("BTCUSDT"))}
    /\ closeCalled = FALSE
    /\ rest = NoRest

\* a task of the application awaits _send_message(msg)
CallSend(t, msg) ==
    /\ Free /\ t \in Callers /\ Pc(t) = "idle" /\ calls[t] <= MaxBurst
    /\ calls' = [calls EXCEPT ![t] = @ + 1]
    /\ outcome' = [outcome EXCEPT ![t] = "pending"]
    /\ task' = Set(t, [task[t] EXCEPT !.pc = "send_start", !.msg = msg,
                                      !.stack = <<"send_returned">>])
    /\ running' = t
    /\ UNCHANGED <<clientVars, now, spawned, sock, sendTimes, ref, closeCalled, envVars>>

\* _send_message has returned to it
SendReturned(t) ==
    /\ Runs(t) /\ Pc(t) = "send_returned"
    /\ Done(t)
    /\ UNCHANGED <<clientVars, now, spawned, sock, sendTimes, calls, ref,
                   closeCalled, envVars>>

NextRate ==
    \/ \E t \in CallersOf(scenario), msg \in {"subscribe", "unsubscribe"} : CallSend(t, msg)
    \/ \E t \in Tasks : SendReturned(t)
    \/ \E t \in Tasks : SendStart(t)
    \/ \E t \in Tasks : SendWrite(t)
    \/ \E t \in Tasks : SendDone(t)
    \/ \E t \in Tasks : KeepAlive(t)
    \/ \E t \in Tasks : KeepAliveSent(t)
    \/ \E t \in Tasks : Monitor(t)
    \/ \E t \in Tasks : Wake(t)
    \/ Tick

SpecRate == InitRate /\ [][NextRate]_vars

----------------------------------------------------------------------------
(* Properties of the streaming client *)

\* the task is inside _reconnect
InReconnect(t) ==
    \/ Pc(t) \in {"rc_start", "rc_close_io", "rc_resub", "rc_except", "rc_sleep"}
    \/ \E i \in DOMAIN task[t].stack : task[t].stack[i] = "rc_resub"

\* the task, with locals tk, goes on to request the channels of the registry
Replays(tk, registry) ==
    /\ tk.pc \in {"sub_check", "send_start"}
    /\ tk.msg = "subscribe"
    /\ KeysOf(tk.chans) = registry

\* the task, with locals tk, goes on with the login of a private session
LogsIn(tk) == tk.pc = "send_start" /\ tk.msg = "login"

\* no call of the application other than close() is in progress before or
\* after the step
NoCallBut(pcs) ==
    \A t \in Callers : Pc(t) \in pcs /\ task'[t].pc \in pcs

\* C1: whenever the calls of the (single) calling task have all returned,
\* subscribed_channels is the set obtained by adding the channels of every
\* subscribe that returned normally and removing the channels of every
\* unsubscribe, in call order.
C1_RegistryEqualsReference ==
    (\A t \in Callers : Pc(t) = "idle") => subscribed_channels = ref

\* C2: a reconnect whose new connection is open while the registry is not
\* empty goes on to send one subscribe request for the channels of the
\* registry (after the login, on a private session), and leaves the registry
\* and the callbacks as they were.
C2_ReconnectReplaysRegistry ==
    [][\A t \in Tasks :
         /\ (InReconnect(t) /\ Pc(t) = "auth_start" /\ subscribed_channels # {}
              /\ task'[t].pc # "auth_start")
            => LogsIn(task'[t]) /\ UNCHANGED <<subscribed_channels, callbacks>>
         /\ (Pc(t) = "rc_resub" /\ subscribed_channels # {} /\ task'[t].pc # "rc_resub")
            => /\ Replays(task'[t], subscribed_channels)
               /\ UNCHANGED <<subscribed_channels, callbacks>>]_vars

\* C3: a subscribe call that finds len(subscribed_channels) + len(channels)
\* above max_channels_per_conn ends with the capacity error, and the step of
\* the call that makes the check changes neither subscribed_channels, nor the
\* callbacks, nor is_connected, nor a socket, and hands no frame to a socket.
C3_CapacityErrorChangesNothing ==
    [][\A t \in Callers :
         (/\ Runs(t) /\ Pc(t) = "sub_check" /\ task'[t] # task[t]
          /\ Cardinality(subscribed_channels) + Len(task[t].chans) > max_channels_per_conn)
         => /\ outcome'[t] = "CapacityError"
            /\ task'[t].pc = "idle"
            /\ UNCHANGED <<subscribed_channels, callbacks, is_connected, ws, sock, sendTimes>>]_vars

\* a subscribe call has ended with the capacity error on a connected client
\* whose registry is full
C3_CapacityErrorReached ==
    \E t \in Callers :
        /\ outcome[t] = "CapacityError"
        /\ is_connected
        /\ Cardinality(subscribed_channels) = max_channels_per_conn

\* C4: at no moment have more than message_rate_limit frames been handed to
\* the socket within the last second (sendTimes holds the hand-over times
\* that are less than one second old).
C4_AtMostLimitFramesPerSecond ==
    Len(sendTimes) <= message_rate_limit

\* C5: a liveness monitor whose pong timeout has run out starts one reconnect
\* attempt: no monitor starts an attempt while the attempt of another monitor
\* is in progress, the attempt is not started again after its sleep, and once
\* its connection is open it logs in (on a private session) and re-subscribes
\* the channels of the registry.
C5_TimeoutReconnectsOnceAndResubscribes ==
    [][\A i \in Sockets :
         /\ (Pc(Mon(i)) \in {"mon_new", "mon_wait"} /\ task'[Mon(i)].pc = "rc_start")
            => \A j \in Sockets \ {i} : ~InReconnect(Mon(j))
         /\ Pc(Mon(i)) = "rc_sleep" => task'[Mon(i)].pc = "rc_sleep"
         /\ (/\ Pc(Mon(i)) = "auth_start" /\ subscribed_channels # {}
             /\ task'[Mon(i)].pc # "auth_start")
            => LogsIn(task'[Mon(i)])
         /\ (/\ Pc(Mon(i)) = "rc_resub" /\ subscribed_channels # {}
             /\ task'[Mon(i)].pc # "rc_resub")
            => Replays(task'[Mon(i)], subscribed_channels)]_vars

\* the socket the client holds cannot take a frame
SendFails == ws = 0 \/ sock[ws] # "open"

\* C11: while is_connected holds, each of these steps takes its task into
\* _reconnect: the liveness monitor finding the pong timeout run out, a
\* _send_message whose ws.send fails (for a ping, a subscribe frame or an
\* unsubscribe frame), and the receive loop's recv() reporting the connection
\* closed.
C11_EveryTriggerStartsReconnect ==
    [][\A t \in Tasks :
         /\ (/\ is_connected /\ Pc(t) \in {"mon_new", "mon_wait"} /\ PongTimeout
             /\ task'[t] # task[t])
            => task'[t].pc = "rc_start"
         /\ (/\ is_connected /\ Pc(t) = "send_write" /\ SendFails
             /\ task'[t] # task[t])
            => task'[t].pc \in {"ka_reconnect", "rc_start"}
         /\ (/\ is_connected /\ Pc(t) = "rx_recv_io" /\ sock[task[t].sk] # "open"
             /\ task'[t] # task[t])
            => task'[t].pc = "rc_start"]_vars

\* C12: a _send_message call never passes the rate limiter and goes on to
\* hand its frame to the socket while a call submitted before it is still
\* suspended by the limiter: frames reach the socket in the order of their
\* calls.
C12_NoCallOvertakesASuspendedCall ==
    [][\A t \in Tasks :
         (Pc(t) = "send_start" /\ task'[t].pc = "send_write")
         => \A u \in Tasks \ {t} : Pc(u) # "send_sleep"]_vars

\* C13: a subscribe call whose channels are all in the registry already does
\* not end with the capacity error, whatever the registry holds: it goes on
\* to send its request (which ends by binding the new callback and leaves the
\* set of channel identities as it was).
C13_ResubscribeIsAccepted ==
    [][\A t \in Callers :
         (/\ Runs(t) /\ Pc(t) = "sub_check" /\ task'[t] # task[t]
          /\ KeysOf(task[t].chans) \subseteq subscribed_channels)
         => outcome'[t] # "CapacityError"]_vars

\* C14: when an unsubscribe call ends, whether it returns or raises, none of
\* its channels is left in subscribed_channels or in the callback map.
C14_UnsubscribeAlwaysRemoves ==
    [][\A t \in Callers :
         (task[t].msg = "unsubscribe" /\ Pc(t) # "idle" /\ task'[t].pc = "idle")
         => KeysOf(task[t].chans) \cap (subscribed_channels' \cup DOMAIN callbacks') = {}]_vars

\* C21: at every moment, whatever the interleaving of concurrent subscribe
\* calls at their awaits, subscribed_channels holds at most
\* max_channels_per_conn channel identities.
C21_RegistryWithinCapacity ==
    Cardinality(subscribed_channels) <= max_channels_per_conn

\* C22: a reconnect attempt that failed sleeps the fixed delay and then starts
\* again, and an attempt whose connection the transport has accepted ends the
\* retrying: it does not fail, whether the registry is empty or not.
C22_AcceptedReconnectEndsRetrying ==
    [][\A t \in Tasks :
         /\ (Pc(t) = "rc_except" /\ task'[t] # task[t])
            => task'[t].pc = "rc_sleep" /\ task'[t].wake = now + Sec(RECONNECT_DELAY)
         /\ (Pc(t) = "rc_sleep" /\ task'[t] # task[t]) => task'[t].pc = "rc_start"
         /\ (/\ InReconnect(t) /\ Pc(t) \in {"auth_start", "connect_spawn", "rc_resub"}
             /\ task'[t] # task[t])
            => task'[t].pc # "rc_except"]_vars

\* C23: once close() has cleared is_connected, the next loop test of the
\* keepalive task, of the liveness monitor and of the receive loop ends the
\* task.
C23_LoopsEndAfterClose ==
    [][\A t \in Tasks :
         (/\ closeCalled /\ ~is_connected
          /\ Pc(t) \in {"ka_new", "ka_wait", "mon_new", "mon_wait", "rx_loop"}
          /\ task'[t] # task[t])
         => task'[t].pc = "done"]_vars

\* C24: while a task is opening a private session and its login has not been
\* acknowledged (the connection is open and _authenticate is still to run or
\* running), is_connected is false.
C24_ConnectedOnlyAfterLogin ==
    \A t \in Tasks : (task[t].priv /\ Pc(t) = "auth_start") => ~is_connected

\* C25: of the messages the receive loop takes from the socket, a 'pong'
\* changes only last_pong_time; an error envelope changes no field of the
\* client; a data envelope starts the callback registered for its channel
\* identity, or none when none is registered, and the callback once ended is
\* not started again; none of the three changes the registry, the callbacks,
\* is_connected, ws or a socket.
C25_ReceivedMessageEffects ==
    [][\A t \in Tasks :
         /\ (Pc(t) = "rx_recv_io" /\ task'[t].msg \in {"pong", "error", "data"})
            => /\ UNCHANGED <<callbacks, subscribed_channels, ws, is_connected, sock,
                              last_ping_time, message_count, message_time>>
               /\ task'[t].msg = "pong" => task'[t].pc = "rx_loop" /\ task'[t].cb = None
               /\ task'[t].msg = "error"
                  => /\ UNCHANGED last_pong_time
                     /\ task'[t].pc = "rx_loop" /\ task'[t].cb = None
               /\ task'[t].msg = "data"
                  => /\ UNCHANGED last_pong_time
                     /\ LET key == ChannelKey(task'[t].chans[1])
                        IN  IF key \in DOMAIN callbacks
                            THEN task'[t].pc = "rx_callback" /\ task'[t].cb = callbacks[key]
                            ELSE task'[t].pc = "rx_loop" /\ task'[t].cb = None
         /\ (Pc(t) \in {"rx_callback", "rx_callback_io"} /\ task'[t] # task[t])
            => \/ task'[t].pc = "rx_callback_io" /\ task'[t].cb = task[t].cb
               \/ task'[t].pc = "rx_loop" /\ task'[t].cb = None]_vars

\* with two channels registered to different callbacks, the callback of the
\* second has been started for a data envelope of the second
C25_CallbackOfTheChannelStarted ==
    /\ Pc(Rx) = "rx_callback"
    /\ task[Rx].chans = <<Channel("ETHUSDT")>>
    /\ task[Rx].cb = "cbB"
    /\ DOMAIN callbacks = Keys
    /\ callbacks[ChannelKey(Channel("BTCUSDT"))] = "cbA"

\* C26: the callback of a data message is started only when the callback of
\* every message received before it has returned or raised, on the first
\* connection and on those that follow it.
C26_CallbacksDoNotOverlap ==
    [][\A t \in Tasks :
         (Pc(t) = "rx_recv_io" /\ task'[t].msg = "data" /\ task'[t].cb # None)
         => task[t].cb = None]_vars

\* the callback of a message received on a later connection is suspended
\* while the socket is open and a second channel is registered
C26_CallbackSuspendedAfterReconnect ==
    /\ Pc(Rx) = "rx_callback_io"
    /\ task[Rx].sk = ws /\ ws > 1
    /\ sock[ws] = "open"
    /\ Cardinality(subscribed_channels) > 1

\* the tasks of `ts` that have been created and have not ended
Alive(ts) == {t \in ts : Pc(t) \notin {"none", "done"}}

\* C27: at every moment at most one keepalive task and at most one liveness
\* monitor task of the client are alive.
C27_OneKeepaliveOneMonitor ==
    /\ Cardinality(Alive({Ka(i) : i \in Sockets})) <= 1
    /\ Cardinality(Alive({Mon(i) : i \in Sockets})) <= 1

\* C28: every session the client establishes is a public one (subscribe
\* connects without login, and no other call opens a session), and a
\* reconnect opens the same kind again: its _connect is called for the
\* public endpoint, without login.
C28_ReconnectKeepsSessionKind ==
    [][\A t \in Tasks :
         /\ (Pc(t) = "connect_spawn" /\ task'[t] # task[t]) => ~task[t].priv
         /\ (/\ Pc(t) \in {"rc_start", "rc_close_io"} /\ task'[t].pc = "connect_io")
            => ~task'[t].priv]_vars

\* C30: after every step the keys of the callback map are the channels of
\* subscribed_channels; a subscribe call that ends with an error (its connect
\* or its send failed) has changed neither; and channels are added only by a
\* subscribe call whose frame has been handed to the socket.
C30_CallbacksMatchRegistry ==
    [][/\ DOMAIN callbacks' = subscribed_channels'
       /\ \A t \in Callers :
            (task[t].msg = "subscribe" /\ Pc(t) # "idle" /\ outcome'[t] = "error")
            => UNCHANGED <<callbacks, subscribed_channels>>
       /\ subscribed_channels' \ subscribed_channels # {}
          => /\ sendTimes # <<>>
             /\ \E t \in Callers :
                  /\ Pc(t) = "sub_record" /\ task'[t].pc = "idle"
                  /\ subscribed_channels' = subscribed_channels \cup KeysOf(task[t].chans)]_vars

\* no reconnect has run, a subscribe call has failed in its connect after
\* an earlier subscribe, of two channels, had succeeded
C30_SubscribeFailedInConnect ==
    /\ scenario = "calls" /\ Pc(Rx) = "none"
    /\ fails = 1
    /\ outcome[<<"user", 1>>] = "error"
    /\ Cardinality(subscribed_channels) = 2

\* C18: every key of api_config that the login reads is one that
\* _validate_config checks when the configuration is constructed, and a
\* login that has started goes on to send its login frame: it does not fail
\* for a credential that is missing.
C18_LoginNeverLacksCredentials ==
    [][\A t \in Tasks :
         (Pc(t) = "auth_start" /\ task'[t].pc # "auth_start")
         => LoginKeys \subseteq ValidatedKeys /\ LogsIn(task'[t])]_vars

\* C9: the only socket that can be open is the one the client holds in ws:
\* at most one socket is open, and a socket that was replaced is closed.
C9_OnlyTheCurrentSocketIsOpen ==
    \A s \in Sockets : sock[s] = "open" => s = ws

\* C10: once close() has been called, and while the application makes no
\* further call, is_connected does not become true again and no socket is
\* opened.
C10_CloseIsTerminal ==
    [][(closeCalled /\ NoCallBut({"idle", "close_io"}))
       => /\ ~is_connected => ~is_connected'
          /\ \A s \in Sockets : sock'[s] = "open" => sock[s] = "open"]_vars

----------------------------------------------------------------------------
(* Decimal text: numbers as the exchanges send them and as f-strings print  *)
(* them.  A text is a sequence of characters.                               *)

DigitChars == <<"0", "1", "2", "3", "4", "5", "6", "7", "8", "9">>
DigitValue(c) == (CHOOSE i \in 1..10 : DigitChars[i] = c) - 1

\* f"{n}" and str(n) of an int n >= 0
RECURSIVE FormatInt(_)
FormatInt(n) ==
    IF n < 10 THEN <<DigitChars[n + 1]>>
    ELSE Append(FormatInt(n \div 10), DigitChars[(n % 10) + 1])

\* int(text) of a text of decimal digits
RECURSIVE ParseInt(_)
ParseInt(text) ==
    IF text = <<>> THEN 0
    ELSE 10 * ParseInt(SubSeq(text, 1, Len(text) - 1)) + DigitValue(text[Len(text)])

\* float(text) of a decimal text with at most two decimals, in hundredths
ParseFloat(text) ==
    LET dots == {i \in 1..Len(text) : text[i] = "."}
    IN  IF dots = {} THEN 100 * ParseInt(text)
        ELSE LET d == CHOOSE i \in dots : TRUE
                 frac == SubSeq(text, d + 1, Len(text))
             IN  100 * ParseInt(SubSeq(text, 1, d - 1))
                 + (IF Len(frac) = 1 THEN 10 * ParseInt(frac) ELSE ParseInt(frac))

----------------------------------------------------------------------------
(* BitgetAPI.cancel_all_pending_orders (data_api.py:279-308) *)

\* the ages, in milliseconds, of the orders the exchange holds
Ages == {10 * 1000, 30 * 1000 - 1, 30 * 1000, 31 * 1000, 45 * 1000}
\* the readings of the clock, in milliseconds, at which a sweep starts
SweepTimes == {60 * 1000, 100 * 1000}

\* an entry of entrustedList: the exchange sends orderId and cTime as text;
\* age is the age the entry was made with
Order(i, at, age) == [orderId |-> FormatInt(i), cTime |-> FormatInt(at - age), age |-> age]

RECURSIVE AgeLists(_)
AgeLists(n) ==
    IF n = 0 THEN {<<>>}
    ELSE AgeLists(n - 1) \cup {Append(l, a) : l \in {x \in AgeLists(n - 1) : Len(x) = n - 1}, a \in Ages}

Orders(at, ages) == [i \in 1..Len(ages) |-> Order(i, at, ages[i])]

\* lines 282-283
time_threshold_ms == 30 * 1000

\* the test without the boundary
StaleStrictly(current_time_ms, order) ==
    order.orderId # <<>> /\ current_time_ms - ParseInt(order.cTime) > time_threshold_ms

\* line 297: order_id and (current_time_ms - order_time >= time_threshold_ms)
Stale(current_time_ms, order) ==
    order.orderId # <<>> /\ current_time_ms - ParseInt(order.cTime) >= time_threshold_ms

\* a sweep is about to start: the clock has been read (line 282), the
\* exchange holds the orders of `pending`
InitSweep ==
    /\ InitClient
    /\ scenario = "calls"
    /\ \E at \in SweepTimes, ages \in AgeLists(MaxOrders) :
         rest = [op |-> "sweep", pc |-> "fetch", current_time_ms |-> at,
                 pending |-> Orders(at, ages), pending_orders |-> "not requested",
                 fetched |-> FALSE, orders |-> <<>>,
                 next |-> 1, cancels |-> <<>>, results |-> <<>>]

\* lines 285-291: get_pending_orders returns nothing (the request failed),
\* an error code, or the list; an empty list ends the sweep
SweepFetch(response) ==
    /\ rest.op = "sweep" /\ rest.pc = "fetch"
    /\ rest' = IF response = "00000"
               THEN [rest EXCEPT !.pending_orders = response, !.fetched = TRUE,
                                 !.orders = rest.pending,
                                 !.pc = IF rest.pending = <<>> THEN "done" ELSE "loop"]
               ELSE [rest EXCEPT !.pending_orders = response, !.pc = "done"]
    /\ UNCHANGED wsVars

\* a list that keeps the results of the cancels that succeeded only
ResultsOfSuccesses(results, result) ==
    IF result = "00000" THEN Append(results, result) ELSE results

\* line 302: results.append(result), whatever the result
Results(results, result) == Append(results, result)

\* lines 293-304: one order of the list; the cancel of a stale order returns
\* nothing, an error code or success, and its result is kept
SweepOrder(result) ==
    /\ rest.op = "sweep" /\ rest.pc = "loop"
    /\ LET order == rest.orders[rest.next]
           last == rest.next = Len(rest.orders)
       IN  IF Stale(rest.current_time_ms, order)
           THEN rest' = [rest EXCEPT !.cancels = Append(@, order.orderId),
                                     !.results = Results(@, result),
                                     !.next = @ + 1,
                                     !.pc = IF last THEN "done" ELSE "loop"]
           ELSE /\ result = None
                /\ rest' = [rest EXCEPT !.next = @ + 1,
                                        !.pc = IF last THEN "done" ELSE "loop"]
    /\ UNCHANGED wsVars

Responses == {None, "40001", "00000"}

NextSweep ==
    \/ \E response \in Responses : SweepFetch(response)
    \/ \E result \in Responses : SweepOrder(result)

SpecSweep == InitSweep /\ [][NextSweep]_vars

\* the orders among the first n of the fetched list that are at least 30 s old
RECURSIVE StaleIds(_, _)
StaleIds(orders, n) ==
    IF n = 0 THEN <<>>
    ELSE IF orders[n].age >= 30 * 1000
         THEN Append(StaleIds(orders, n - 1), orders[n].orderId)
         ELSE StaleIds(orders, n - 1)

\* C6: the cancels a sweep has issued are, in the order of the list, the
\* orders it has gone through whose age (the clock reading of the sweep minus
\* the creation time) is 30 s or more: never a younger one, an order of
\* exactly 30 s included, and none when the list is empty or was not fetched.
C6_CancelsExactlyTheStaleOrders ==
    rest.op = "sweep" =>
        /\ rest.cancels = StaleIds(rest.orders, rest.next - 1)
        /\ rest.pc = "done" /\ rest.fetched => rest.next - 1 = Len(rest.pending)
        /\ ~rest.fetched => rest.cancels = <<>>

\* a sweep over orders aged 10 s, 31 s and 45 s has ended with the second and
\* the third cancelled
C6_TwoOfThreeCancelled ==
    /\ rest.op = "sweep" /\ rest.pc = "done" /\ rest.fetched
    /\ Len(rest.orders) = 3
    /\ rest.orders[1].age = 10 * 1000
    /\ rest.orders[2].age = 31 * 1000
    /\ rest.orders[3].age = 45 * 1000
    /\ rest.cancels = <<FormatInt(2), FormatInt(3)>>

C17_TransportFailureIsRetried ==
    (rest.op = "sweep" /\ rest.pc = "done") =>
        /\ rest.pending_orders # None
        /\ \A i \in 1..Len(rest.results) : rest.results[i] # None

----------------------------------------------------------------------------
(* BitgetAPI.get_position (data_api.py:143-181) *)

\* the `total` texts of a position record, each with its value in hundredths
Totals == {[text |-> <<"0">>, value |-> 0],
           [text |-> <<"0", ".", "0">>, value |-> 0],
           [text |-> <<"0", ".", "0", "5">>, value |-> 5],
           [text |-> <<"0", ".", "5">>, value |-> 50],
           [text |-> <<"1">>, value |-> 100],
           [text |-> <<"1", "2", ".", "5", "0">>, value |-> 1250]}
HoldSides == {"long", "short", "net", ""}

PositionData == [total : Totals, holdSide : HoldSides]

RECURSIVE PositionLists(_)
PositionLists(n) ==
    IF n = 0 THEN {<<>>}
    ELSE PositionLists(n - 1)
         \cup {Append(l, d) : l \in {x \in PositionLists(n - 1) : Len(x) = n - 1},
                              d \in PositionData}

\* what _request returns: nothing (the request failed), an error code, or a
\* success whose data is a list of records or one record
PositionResponses ==
    {[code |-> None, isList |-> TRUE, data |-> <<>>],
     [code |-> "40001", isList |-> TRUE, data |-> <<>>]}
    \cup {[code |-> "00000", isList |-> TRUE, data |-> l] : l \in PositionLists(MaxPositions)}
    \cup {[code |-> "00000", isList |-> FALSE, data |-> <<d>>] : d \in PositionData}

\* a mapping that takes every side but 'short' for long
SideUnlessShort(holdSide) == IF holdSide # "short" THEN "long" ELSE "short"

\* line 158: 'long' if position_data.get('holdSide') == 'long' else 'short'
Side(holdSide) == IF holdSide = "long" THEN "long" ELSE "short"

\* lines 153-181: the record read is the first of a list, or the record
\* itself; the result is <<>> for None and <<p>> for a Position p
Position(symbol, response) ==
    IF response.code # "00000" \/ response.data = <<>> THEN <<>>
    ELSE LET position_data == response.data[1]
         IN  IF ParseFloat(position_data.total.text) > 0
             THEN <<[symbol |-> symbol, side |-> Side(position_data.holdSide),
                     size |-> ParseFloat(position_data.total.text)]>>
             ELSE <<>>

InitPosition ==
    /\ InitClient
    /\ scenario = "calls"
    /\ rest = [op |-> "position", pc |-> "request", symbol |-> "BTCUSDT",
               response |-> [code |-> None, isList |-> TRUE, data |-> <<>>],
               result |-> <<>>]

\* line 152: the request returns
GetPositionRequest(response) ==
    /\ rest.op = "position" /\ rest.pc = "request"
    /\ rest' = [rest EXCEPT !.pc = "respond", !.response = response]
    /\ UNCHANGED wsVars

\* lines 154-181: the Position, or None
GetPositionReturn ==
    /\ rest.op = "position" /\ rest.pc = "respond"
    /\ rest' = [rest EXCEPT !.pc = "done", !.result = Position(rest.symbol, rest.response)]
    /\ UNCHANGED wsVars

NextPosition ==
    \/ \E response \in PositionResponses : GetPositionRequest(response)
    \/ GetPositionReturn

SpecPosition == InitPosition /\ [][NextPosition]_vars

\* get_position has returned on a success that carries a position record
PositionRead ==
    /\ rest.op = "position" /\ rest.pc = "done"
    /\ rest.response.code = "00000" /\ rest.response.data # <<>>

\* C7: on a success that carries a position record, get_position returns None
\* when the record's total is 0, and when it is above 0 a Position of that
\* size whose side is 'long' if holdSide is 'long' and 'short' for every other
\* holdSide.
C7_PositionFollowsTotalAndHoldSide ==
    PositionRead =>
        LET record == rest.response.data[1]
        IN  /\ record.total.value = 0 => rest.result = <<>>
            /\ record.total.value > 0 =>
                 /\ Len(rest.result) = 1
                 /\ rest.result[1].size = record.total.value
                 /\ rest.result[1].symbol = rest.symbol
                 /\ record.holdSide = "long" => rest.result[1].side = "long"
                 /\ record.holdSide # "long" => rest.result[1].side = "short"

\* a Position has been returned for a record whose holdSide is neither
\* 'long' nor 'short'
C7_ShortForOtherHoldSide ==
    /\ PositionRead
    /\ rest.response.data[1].total.value > 0
    /\ rest.response.data[1].holdSide = "net"
    /\ Len(rest.result) = 1
    /\ rest.result[1].side = "short"

----------------------------------------------------------------------------
(* The operations of BitgetAPI on a request that fails or whose response    *)
(* cannot be used (data_api.py:64-99, 143-308)                              *)

GatewayOperations ==
    {"place_order", "place_tpsl_order", "close_position", "cancel_order",
     "get_order_detail", "get_pending_orders", "get_position",
     "cancel_all_pending_orders"}

\* the dicts a response carries in 'data': a position record (its 'total' a
\* text, the empty text and a lone sign among them), or the answer to the
\* pending-orders request, whose 'entrustedList' is missing, null or empty
GatewayTotals == {<<"0">>, <<"1">>, <<"0", ".", "5">>, <<>>, <<"-">>}
GatewayDicts ==
    [total : GatewayTotals, holdSide : {"long", "short"}, entrustedList : {"absent"}]
    \cup [total : {<<"0">>}, holdSide : {""}, entrustedList : {"absent", "null", "empty"}]

\* 'data' of a response: missing, null, a list of dicts, or a dict
GatewayData ==
    {[kind |-> "absent", items |-> <<>>], [kind |-> "null", items |-> <<>>],
     [kind |-> "list", items |-> <<>>]}
    \cup {[kind |-> k, items |-> <<d>>] : k \in {"list", "dict"}, d \in GatewayDicts}

\* what the transport does with a request: session.request raises, the body
\* is not JSON (response.json() raises), or a JSON object arrives
GatewayReplies ==
    {[kind |-> k, code |-> "", data |-> [kind |-> "absent", items |-> <<>>]] :
        k \in {"failure", "not_json"}}
    \cup {[kind |-> "json", code |-> c, data |-> d] : c \in {"00000", "40001"}, d \in GatewayData}

\* lines 69-99: _request returns the parsed body, or None when anything in
\* its try block raised
RequestReturnsNone(reply) == reply.kind # "json"

\* float(text) accepts the text (of the texts used here: digits with at most
\* one point)
IsDecimal(text) ==
    /\ \E i \in 1..Len(text) : \E j \in 1..10 : DigitChars[j] = text[i]
    /\ \A i \in 1..Len(text) : text[i] = "." \/ \E j \in 1..10 : DigitChars[j] = text[i]
    /\ Cardinality({i \in 1..Len(text) : text[i] = "."}) <= 1

\* lines 152-181: get_position on the reply of its request
GetPositionOutcome(symbol, reply) ==
    IF \/ RequestReturnsNone(reply) \/ reply.code # "00000"
       \/ reply.data.kind \in {"absent", "null"} \/ reply.data.items = <<>>
    THEN [raised |-> FALSE, result |-> "None"]
    ELSE LET position_data == reply.data.items[1]
         IN  IF ~IsDecimal(position_data.total)
             THEN [raised |-> TRUE, result |-> "ValueError"]
             ELSE LET response == [code |-> reply.code, isList |-> reply.data.kind = "list",
                                   data |-> <<[total |-> [text |-> position_data.total, value |-> 0],
                                               holdSide |-> position_data.holdSide]>>]
                  IN  [raised |-> FALSE,
                       result |-> IF Position(symbol, response) = <<>> THEN "None" ELSE "Position"]

\* lines 285-291, 307: cancel_all_pending_orders on the reply of the
\* pending-orders request, for a reply that carries no order
SweepOutcome(reply) ==
    IF RequestReturnsNone(reply) \/ reply.code # "00000"
    THEN [raised |-> FALSE, result |-> "[]"]
    ELSE IF reply.data.kind \in {"null", "list"}
    THEN [raised |-> TRUE, result |-> "AttributeError"]
    ELSE [raised |-> FALSE, result |-> "[]"]

\* lines 216, 234, 244, 252, 260, 276: the other operations return what
\* _request returns
GatewayOutcome(call, symbol, reply) ==
    CASE call = "get_position" -> GetPositionOutcome(symbol, reply)
      [] call = "cancel_all_pending_orders" -> SweepOutcome(reply)
      [] OTHER -> [raised |-> FALSE,
                   result |-> IF RequestReturnsNone(reply) THEN "None" ELSE "response"]

InitGateway ==
    /\ InitClient
    /\ scenario = "calls"
    /\ rest = [op |-> "gateway", pc |-> "idle", call |-> "", symbol |-> "BTCUSDT",
               reply |-> [kind |-> "failure", code |-> "",
                          data |-> [kind |-> "absent", items |-> <<>>]],
               raised |-> FALSE, result |-> ""]

\* the caller awaits an operation, which awaits _request
GatewayCall(call) ==
    /\ rest.op = "gateway" /\ rest.pc = "idle"
    /\ rest' = [rest EXCEPT !.pc = "request", !.call = call]
    /\ UNCHANGED wsVars

\* the transport answers
GatewayReply(reply) ==
    /\ rest.op = "gateway" /\ rest.pc = "request"
    /\ rest' = [rest EXCEPT !.pc = "respond", !.reply = reply]
    /\ UNCHANGED wsVars

\* the operation returns or raises
GatewayReturn ==
    /\ rest.op = "gateway" /\ rest.pc = "respond"
    /\ LET o == GatewayOutcome(rest.call, rest.symbol, rest.reply)
       IN  rest' = [rest EXCEPT !.pc = "done", !.raised = o.raised, !.result = o.result]
    /\ UNCHANGED wsVars

NextGateway ==
    \/ \E call \in GatewayOperations : GatewayCall(call)
    \/ \E reply \in GatewayReplies : GatewayReply(reply)
    \/ GatewayReturn

SpecGateway == InitGateway /\ [][NextGateway]_vars

\* C15: an operation that has ended has raised nothing, and when its request
\* failed at the transport or its body was not JSON its result is None or an
\* empty list.
C15_GatewayNeverRaises ==
    (rest.op = "gateway" /\ rest.pc = "done") =>
        /\ ~rest.raised
        /\ RequestReturnsNone(rest.reply) => rest.result \in {"None", "[]"}

----------------------------------------------------------------------------
(* BitgetAPI.place_order (data_api.py:183-216) *)

OrderTypes == {"market", "limit", "stop", "stop_limit", "MARKET", ""}
Sides == {"buy", "sell"}
\* price and trigger_price arguments: None, the empty text, or a decimal text
Prices == {<<>>, <<"1", "0", "0">>, <<"1", "0", "0", ".", "2", "5">>, <<"9", "9", ".", "9", "6">>}
PriceArguments == {[given |-> FALSE, text |-> <<>>]} \cup {[given |-> TRUE, text |-> x] : x \in Prices}

\* `if price:` -- None and the empty text are false
Truthy(arg) == arg.given /\ arg.text # <<>>

\* round(x) of a number of tenths given in hundredths: to the nearest, a half
\* to the even neighbour
RoundHalfEven(hundredths) ==
    LET q == hundredths \div 10
        r == hundredths % 10
    IN  IF r < 5 THEN q
        ELSE IF r > 5 THEN q + 1
        ELSE IF q % 2 = 0 THEN q ELSE q + 1

\* str(x) of a float x with one decimal, given in tenths
FormatTenths(tenths) == FormatInt(tenths \div 10) \o <<".">> \o FormatInt(tenths % 10)

\* lines 189, 191: str(round(float(price) * 10) / 10)
RoundPrice(text) == FormatTenths(RoundHalfEven(ParseFloat(text)))

\* a table that hands an unmapped order_type on as it is
OrderTypePassedOn(order_type) ==
    CASE order_type = "market" -> "market"
      [] order_type = "limit" -> "limit"
      [] order_type = "stop" -> "profit_stop"
      [] OTHER -> order_type

\* lines 193-197, 206: order_type_mapping.get(order_type, 'limit')
OrderType(order_type) ==
    CASE order_type = "market" -> "market"
      [] order_type = "limit" -> "limit"
      [] order_type = "stop" -> "profit_stop"
      [] OTHER -> "limit"

\* lines 188-214: the body of the request, a dict from field names to texts
OrderBody(symbol, side, trade_side, size, order_type, price, trigger_price) ==
    LET base == [k \in {"symbol", "productType", "marginMode", "marginCoin", "side",
                        "tradeSide", "orderType", "size"} |->
                   CASE k = "symbol" -> <<symbol>>
                     [] k = "productType" -> <<"USDT-FUTURES">>
                     [] k = "marginMode" -> <<"crossed">>
                     [] k = "marginCoin" -> <<"USDT">>
                     [] k = "side" -> <<side>>
                     [] k = "tradeSide" -> <<trade_side>>
                     [] k = "orderType" -> <<OrderType(order_type)>>
                     [] OTHER -> size]
        extra == IF order_type = "limit" /\ Truthy(price)
                 THEN [k \in {"price"} |-> RoundPrice(price.text)]
                 ELSE IF order_type = "stop" /\ Truthy(trigger_price)
                 THEN [k \in {"triggerPrice", "holdSide"} |->
                         IF k = "triggerPrice" THEN RoundPrice(trigger_price.text)
                         ELSE <<IF side = "buy" THEN "short" ELSE "long">>]
                 ELSE [k \in {} |-> <<>>]
    IN  [k \in DOMAIN base \cup DOMAIN extra |-> IF k \in DOMAIN extra THEN extra[k] ELSE base[k]]

InitOrder ==
    /\ InitClient
    /\ scenario = "calls"
    /\ rest = [op |-> "order", pc |-> "idle", order_type |-> "", side |-> "",
               price |-> [given |-> FALSE, text |-> <<>>],
               trigger_price |-> [given |-> FALSE, text |-> <<>>],
               body |-> [k \in {} |-> <<>>], result |-> ""]

\* place_order is called and submits its body (line 216)
PlaceOrder(side, order_type, price, trigger_price) ==
    /\ rest.op = "order" /\ rest.pc = "idle"
    /\ rest' = [rest EXCEPT !.pc = "request", !.order_type = order_type, !.side = side,
                            !.price = price, !.trigger_price = trigger_price,
                            !.body = OrderBody("BTCUSDT", side, "open", <<"0", ".", "0", "1">>,
                                               order_type, price, trigger_price)]
    /\ UNCHANGED wsVars

\* _request returns: None, an error code or success
PlaceOrderReturn(response) ==
    /\ rest.op = "order" /\ rest.pc = "request"
    /\ rest' = [rest EXCEPT !.pc = "done", !.result = response]
    /\ UNCHANGED wsVars

NextOrder ==
    \/ \E side \in Sides, order_type \in OrderTypes, price \in PriceArguments,
          trigger_price \in PriceArguments :
            PlaceOrder(side, order_type, price, trigger_price)
    \/ \E response \in Responses : PlaceOrderReturn(response)

SpecOrder == InitOrder /\ [][NextOrder]_vars

\* C19: the orderType of a submitted body is 'market' for order_type
\* 'market', 'limit' for 'limit', 'profit_stop' for 'stop', and 'limit' for
\* every other order_type.
C19_OrderTypeFollowsTheTable ==
    (rest.op = "order" /\ rest.pc # "idle") =>
        LET sent == rest.body["orderType"]
        IN  /\ rest.order_type = "market" => sent = <<"market">>
            /\ rest.order_type = "limit" => sent = <<"limit">>
            /\ rest.order_type = "stop" => sent = <<"profit_stop">>
            /\ rest.order_type \notin {"market", "limit", "stop"} => sent = <<"limit">>

\* a body has been submitted as 'limit' for an order_type the table does not
\* hold
C19_UnmappedSentAsLimit ==
    /\ rest.op = "order" /\ rest.pc = "done"
    /\ rest.order_type = "stop_limit"
    /\ rest.body["orderType"] = <<"limit">>

\* C31: a submitted body whose orderType is 'limit' holds a price, and one
\* whose orderType is 'profit_stop' holds a triggerPrice and a holdSide,
\* whatever the order_type, price and trigger_price arguments were.
C31_BodyHoldsThePricesOfItsType ==
    (rest.op = "order" /\ rest.pc # "idle") =>
        /\ rest.body["orderType"] = <<"limit">> => "price" \in DOMAIN rest.body
        /\ rest.body["orderType"] = <<"profit_stop">>
           => {"triggerPrice", "holdSide"} \subseteq DOMAIN rest.body

----------------------------------------------------------------------------
(* The fill wait.  Its loop (wait_for_order_fill of the order execution     *)
(* module, named in the comment of data_api.py:246) is not among the source *)
(* files; it is modelled as the specification describes it: the order's     *)
(* detail is fetched again and again, with a delay between fetches, until a *)
(* terminal status is seen or the caller's timeout has elapsed.  What a     *)
(* fetch returns is BitgetAPI.get_order_detail (data_api.py:246-252).       *)

MaxFillTimeout == 3         \* the longest timeout a caller passes, in polling delays

LiveStatuses == {"live", "partially_filled"}
TerminalStatuses == {"filled", "cancelled", "rejected"}

\* what the transport does with the detail request: it fails, or the
\* exchange answers with the order's status
DetailReplies == {"failure", "answer"}

\* a get_order_detail that lets the failure of its request reach the caller
OrderDetailRaising(reply, status) ==
    IF reply = "failure" THEN [kind |-> "raised", state |-> ""]
    ELSE [kind |-> "response", state |-> status]

\* lines 246-252: get_order_detail returns what _request returns: None when
\* the request failed (lines 97-99), else the response
OrderDetail(reply, status) ==
    IF reply = "failure" THEN [kind |-> "None", state |-> ""]
    ELSE [kind |-> "response", state |-> status]

InitFill ==
    /\ InitClient
    /\ scenario = "calls"
    /\ \E timeout \in 1..MaxFillTimeout, status \in LiveStatuses :
         rest = [op |-> "fill", pc |-> "poll", timeout |-> timeout, elapsed |-> 0,
                 status |-> status, polls |-> 0, failures |-> 0,
                 detail |-> [kind |-> "None", state |-> ""], settled |-> FALSE]

\* the exchange fills, cancels or rejects the order, or fills a part of it
OrderProgress(status) ==
    /\ rest.op = "fill" /\ rest.pc # "done" /\ rest.status \in LiveStatuses
    /\ status \in TerminalStatuses \cup {"partially_filled"} /\ status # rest.status
    /\ rest' = [rest EXCEPT !.status = status]
    /\ UNCHANGED wsVars

\* one fetch of the order's detail: a terminal status ends the wait and
\* settles the order; a fetch that returned None or a live status is followed
\* by the delay; an exception of the fetch would leave the loop
FillPoll(reply) ==
    /\ rest.op = "fill" /\ rest.pc = "poll"
    /\ LET detail == OrderDetail(reply, rest.status)
       IN  rest' = [rest EXCEPT
                      !.detail = detail,
                      !.polls = @ + 1,
                      !.failures = IF detail.kind = "response" THEN @ ELSE @ + 1,
                      !.settled = detail.kind = "response" /\ detail.state \in TerminalStatuses,
                      !.pc = IF detail.kind = "raised" THEN "done"
                             ELSE IF detail.kind = "response" /\ detail.state \in TerminalStatuses
                             THEN "done" ELSE "delay"]
    /\ UNCHANGED wsVars

\* the polling delay; the wait ends when the timeout has elapsed
FillDelay ==
    /\ rest.op = "fill" /\ rest.pc = "delay"
    /\ rest' = [rest EXCEPT !.elapsed = @ + 1,
                            !.pc = IF rest.elapsed + 1 >= rest.timeout THEN "done" ELSE "poll"]
    /\ UNCHANGED wsVars

NextFill ==
    \/ \E status \in TerminalStatuses \cup LiveStatuses : OrderProgress(status)
    \/ \E reply \in DetailReplies : FillPoll(reply)
    \/ FillDelay

SpecFill == InitFill /\ [][NextFill]_vars

\* C20: a fill wait that has ended has either seen a terminal status in its
\* last poll, and only then is the order settled, or its timeout has elapsed;
\* it has not ended on a poll that failed at the transport.
C20_WaitEndsOnTerminalStatusOrTimeout ==
    (rest.op = "fill" /\ rest.pc = "done") =>
        /\ \/ rest.detail.kind = "response" /\ rest.detail.state \in TerminalStatuses
           \/ rest.elapsed >= rest.timeout
        /\ rest.settled <=> (rest.detail.kind = "response" /\ rest.detail.state \in TerminalStatuses)
        /\ rest.settled => rest.detail.state = rest.status

\* a wait has gone on after a poll that failed at the transport and has ended
\* later on a terminal status
C20_SettledAfterFailedPoll ==
    /\ rest.op = "fill" /\ rest.pc = "done"
    /\ rest.failures > 0
    /\ rest.settled /\ rest.status = "cancelled"
    /\ rest.elapsed < rest.timeout

----------------------------------------------------------------------------
(* REST request signing: BybitClientV2._generate_signature(params,          *)
(* timestamp) (bybit_client.py:20-36) and BybitFuturesTrader.               *)
(* _generate_signature(params) (main.py:26-43), which reads the clock.      *)

Secrets == {"secretA", "secretB"}
\* the parameter names, in the order sorted() puts them
ParamKeys == <<"category", "symbol">>
ParamDicts ==
    {[k \in {} |-> ""],
     [k \in {"symbol"} |-> "BTCUSDT"],
     [k \in {"category"} |-> "linear"],
     [k \in {"category", "symbol"} |-> IF k = "symbol" THEN "BTCUSDT" ELSE "linear"]}
\* timestamps and readings of the clock, in milliseconds
Timestamps == {9, 10, 100}

\* lines 28-29 (main.py:33-34): the items sorted by name, each printed k=v,
\* joined by '&'
RECURSIVE JoinItems(_, _)
JoinItems(params, n) ==
    IF n = 0 THEN <<>>
    ELSE LET k == ParamKeys[n]
             before == JoinItems(params, n - 1)
         IN  IF k \notin DOMAIN params THEN before
             ELSE (IF before = <<>> THEN <<>> ELSE Append(before, "&"))
                  \o <<k, "=", params[k]>>

\* a payload that leaves the timestamp out
PayloadWithoutTimestamp(params, timestamp) == JoinItems(params, Len(ParamKeys))

\* line 30 (main.py:35): the payload, a sequence of pieces of text
SignaturePayload(params, timestamp) ==
    JoinItems(params, Len(ParamKeys)) \o <<"&timestamp=">> \o FormatInt(timestamp)

\* lines 32-36 (main.py:37-43): the HMAC-SHA256 digest, an injective function
\* of the key and the message
Hmac(secret_key, message) == <<"hmac_sha256", secret_key, message>>

Signature(secret_key, params, timestamp) ==
    Hmac(secret_key, SignaturePayload(params, timestamp))

InitSign ==
    /\ InitClient
    /\ scenario = "calls"
    /\ \E at \in Timestamps : rest = [op |-> "sign", clock |-> at, ticks |-> 0, signed |-> <<>>]

\* BybitClientV2._generate_signature(params, timestamp)
SignClient(secret_key, params, timestamp) ==
    /\ rest.op = "sign" /\ Len(rest.signed) < MaxSignCalls
    /\ rest' = [rest EXCEPT !.signed = Append(@,
                   [by |-> "BybitClientV2", secret_key |-> secret_key, params |-> params,
                    timestamp |-> timestamp,
                    signature |-> Signature(secret_key, params, timestamp)])]
    /\ UNCHANGED wsVars

\* BybitFuturesTrader._generate_signature(params): the timestamp is
\* int(time.time() * 1000), read during the call
SignTrader(secret_key, params) ==
    /\ rest.op = "sign" /\ Len(rest.signed) < MaxSignCalls
    /\ rest' = [rest EXCEPT !.signed = Append(@,
                   [by |-> "BybitFuturesTrader", secret_key |-> secret_key,
                    params |-> params, timestamp |-> rest.clock,
                    signature |-> Signature(secret_key, params, rest.clock)])]
    /\ UNCHANGED wsVars

\* a millisecond passes
ClockTick ==
    /\ rest.op = "sign" /\ rest.ticks < MaxClock
    /\ rest' = [rest EXCEPT !.clock = @ + 1, !.ticks = @ + 1]
    /\ UNCHANGED wsVars

NextSign ==
    \/ \E k \in Secrets, params \in ParamDicts, timestamp \in Timestamps :
         SignClient(k, params, timestamp)
    \/ \E k \in Secrets, params \in ParamDicts : SignTrader(k, params)
    \/ ClockTick

SpecSign == InitSign /\ [][NextSign]_vars

\* C8: two signatures made with the same secret over equal parameters are
\* equal when their timestamps are equal and different when their timestamps
\* differ; the timestamp is the argument of BybitClientV2._generate_signature
\* and the clock reading of BybitFuturesTrader._generate_signature.
C8_SignatureFollowsTimestamp ==
    rest.op = "sign" =>
        \A i, j \in 1..Len(rest.signed) :
            LET a == rest.signed[i]
                b == rest.signed[j]
            IN  (a.secret_key = b.secret_key /\ a.params = b.params)
                => (a.timestamp = b.timestamp <=> a.signature = b.signature)

\* both functions have signed the same parameters with the same secret at
\* different timestamps, and the signatures differ
C8_TwoTimestampsSigned ==
    /\ rest.op = "sign" /\ Len(rest.signed) = 2
    /\ rest.signed[1].by # rest.signed[2].by
    /\ rest.signed[1].secret_key = rest.signed[2].secret_key
    /\ rest.signed[1].params = rest.signed[2].params
    /\ DOMAIN rest.signed[1].params # {}
    /\ rest.signed[1].timestamp # rest.signed[2].timestamp
    /\ rest.signed[1].signature # rest.signed[2].signature

----------------------------------------------------------------------------
(* The login frame: BybitWebsocketClient._authenticate (lines 76-89) and    *)
(* _generate_signature (lines 38-49) of websocket_client.py.  Both read the *)
(* clock; the clock is counted in ticks, TicksPerSecond to a second.        *)

MaxLoginTicks == 2          \* ticks the clock advances during a login

\* str(int(time.time())) at a reading of the clock
UnixSeconds(clock) == FormatInt(clock \div TicksPerSecond)

\* line 43: timestamp + 'GET' + '/user/verify'
LoginMessage(timestamp) == timestamp \o <<"GET", "/user/verify">>

InitLogin ==
    /\ InitClient
    /\ scenario = "calls"
    /\ \E at \in 0..Sec(2), secret_key \in Secrets :
         rest = [op |-> "login", pc |-> "timestamp", clock |-> at, ticks |-> 0,
                 secret_key |-> secret_key, timestamp |-> <<>>, sign |-> None]

\* line 78: timestamp = str(int(time.time()))
LoginTimestamp ==
    /\ rest.op = "login" /\ rest.pc = "timestamp"
    /\ rest' = [rest EXCEPT !.timestamp = UnixSeconds(rest.clock), !.pc = "sign"]
    /\ UNCHANGED wsVars

\* line 79: sign = self._generate_signature(), which reads the clock for a
\* timestamp of its own (line 42) and signs the message made with it
LoginSign ==
    /\ rest.op = "login" /\ rest.pc = "sign"
    /\ rest' = [rest EXCEPT
                  !.sign = Hmac(rest.secret_key, LoginMessage(UnixSeconds(rest.clock))),
                  !.pc = "frame"]
    /\ UNCHANGED wsVars

\* lines 81-89: the frame is built from the api key, the passphrase, the
\* timestamp and the signature; a key api_config does not hold raises KeyError
LoginFrame ==
    /\ rest.op = "login" /\ rest.pc = "frame"
    /\ rest' = [rest EXCEPT !.pc = IF LoginKeys \subseteq ApiConfigKeys THEN "send" ELSE "raised"]
    /\ UNCHANGED wsVars

\* the clock advances by a tick while the login runs
LoginClock ==
    /\ rest.op = "login" /\ rest.pc \in {"timestamp", "sign", "frame"}
    /\ rest.ticks < MaxLoginTicks
    /\ rest' = [rest EXCEPT !.clock = @ + 1, !.ticks = @ + 1]
    /\ UNCHANGED wsVars

NextLogin ==
    \/ LoginTimestamp
    \/ LoginSign
    \/ LoginFrame
    \/ LoginClock

SpecLogin == InitLogin /\ [][NextLogin]_vars

\* C29: the signature that goes into a login frame is the signature of the
\* message made with the timestamp that goes into the frame, whatever the
\* clock did between the two.
C29_FrameTimestampIsSigned ==
    (rest.op = "login" /\ rest.pc \in {"frame", "send", "raised"})
    => rest.sign = Hmac(rest.secret_key, LoginMessage(rest.timestamp))

====
